---- MODULE Spec2Model ----
(***************************************************************************)
(* Model of the three Things of wot-esp-hal-demo (button, thermometer,     *)
(* light) and of the older thermometer binary async_main.                  *)
(*                                                                         *)
(* Scheduling: one embassy executor on one core.  A task runs from one     *)
(* .await that suspended it to the next one that suspends it; `running`    *)
(* holds the task that is inside such a segment ({} at a scheduling        *)
(* point), so the steps of a segment are never interleaved with another    *)
(* task.  A panic (an unwrap() on None or Err) halts the whole process:    *)
(* esp_backtrace's panic handler never returns.                            *)
(*                                                                         *)
(* WATCH is an embassy_sync::watch::Watch<_, T, 2>: one slot holding the   *)
(* latest value, a counter current_id of sends, and at most 2 receivers,   *)
(* each holding the id it has seen (at_id, 0 for a new receiver).          *)
(***************************************************************************)
EXTENDS Integers, Sequences, FiniteSets, TLC

-----------------------------------------------------------------------------
\* Bounds of the exploration
MaxTasks == 3        \* web tasks of the button Thing that receive requests
MaxPresses == 2      \* presses update_task handles (sends on WATCH)
MaxCycles == 3       \* poll cycles of temperature_write_task
MaxAttempts == 3     \* calls of connect_async by the connection task

\* Program constants
WEB_TASK_POOL_SIZE_BUTTON == 8
WEB_TASK_POOL_SIZE_THERMOMETER == 1
WEB_TASK_POOL_SIZE_ASYNC_MAIN == 1
WEB_TASK_POOL_SIZE_LIGHT == 1
WATCH_N == 2

Min(a, b) == IF a < b THEN a ELSE b

VARIABLES
  thing,      \* which binary runs: "button", "thermometer", "async_main", "light"
  running,    \* {} at a scheduling point, {t} while task t is inside a segment
  halted,     \* TRUE once a panic has halted the process
  pc,         \* task -> control state
  req,        \* web task -> [method, prop, body] of the request it serves
  resp,       \* web task -> the response it has produced and is writing
  k_start,    \* history: web task -> number of completed sends when its GET of a
              \* property started
  WATCH,      \* [data, current_id, receiver_count]
  at_id,      \* web task -> Events.0's at_id (while it holds a receiver)
  frame,      \* web task -> the frame its writer is writing (pc "write") or
              \* wrote last (pc "changed")
  sent,       \* history: the values sent on WATCH, in order
  sent_since, \* history: web task -> a send has happened since it obtained its receiver
  on,         \* button: AppState.on (AtomicBool)
  upd_on,     \* button: update_task's local `on`
  btn,        \* button: level of GPIO9, "high" or "low"
  toggles,    \* history: number of fetch_not executed
  mutex,      \* holder of the Thing's Mutex (sensor / light), {} when free
  fault,      \* thermometer: TRUE while reading the SHTC3 fails
  temp,       \* thermometer: temperature the sensor reports, in 0.01 degrees C
  hum,        \* thermometer: humidity the sensor reports, in 0.01 percent
  reading,    \* thermometer: task -> Result of its sensor read
  cycles,     \* history: poll cycles of temperature_write_task started
  readings,   \* history: successful readings of temperature_write_task, in order
  prev_data,  \* history: WATCH.data when the current poll cycle started
  cycle_sends,\* history: sends of the current poll cycle
  pending,    \* thermometer: a client has sent a GET of a property on a connection
              \* that no web task has accepted yet
  light,      \* light: the Light behind the Mutex, [on, brightness, color]
  led,        \* light: the last frame written to the LED, None before the first
  led_fault,  \* light: TRUE while SmartLedsAdapter::write fails
  put_arg,    \* light: web task -> the parsed body of the PUT it serves
  last_put,   \* history: property -> value of the last PUT answered 204
  boot,       \* main before its tasks run: [main, link, ip, base_uri, mdns]
  wifi        \* the connection task and the Wi-Fi driver:
              \* [pc, state, event, fails, attempts]

webVars == <<req, resp, k_start>>
eventVars == <<WATCH, at_id, frame, sent, sent_since>>
buttonVars == <<on, upd_on, btn, toggles>>
thermoVars == <<fault, temp, hum, reading, cycles, readings, prev_data, cycle_sends,
               pending>>
lightVars == <<light, led, led_fault, put_arg, last_put>>
vars == <<wifi, boot, thing, running, halted, pc, mutex, webVars, eventVars, buttonVars,
          thermoVars, lightVars>>

\* the task of update_task / temperature_write_task; web tasks are 1, 2, ...
UpdateTask == 0
ButtonTasks == 1..Min(WEB_TASK_POOL_SIZE_BUTTON, MaxTasks)
WebTasks ==
  IF thing = "button" THEN ButtonTasks
  ELSE IF thing = "light" THEN 1..WEB_TASK_POOL_SIZE_LIGHT
  ELSE IF thing = "thermometer" THEN 1..WEB_TASK_POOL_SIZE_THERMOMETER
  ELSE 1..WEB_TASK_POOL_SIZE_ASYNC_MAIN
Tasks == {UpdateTask} \cup WebTasks

-----------------------------------------------------------------------------
\* Option<T>: None is <<>>, Some(v) is <<v>>
None == <<>>
Some(v) == <<v>>

\* Result<f32, shtcx::Error>
Ok(v) == [tag |-> "Ok", val |-> v]
Err == [tag |-> "Err", val |-> 0]
NoResult == [tag |-> "None", val |-> 0]

\* bool::to_string and serde_json::to_string(&bool)
BoolToString(b) == IF b THEN "true" ELSE "false"

\* the temperatures and humidities the sensor reports in the explored runs
Temperatures == {2000, 2002, 2005}
Humidities == {4550}

\* f32::to_string / format!("{}", f32) of a value given in hundredths
F32ToString(x) ==
  CASE x = 2000 -> "20"
    [] x = 2002 -> "20.02"
    [] x = 2005 -> "20.05"
    [] x = 4550 -> "45.5"
    [] OTHER -> "?"

NoFrame == [kind |-> "none", data |-> "", id |-> 0]
KeepaliveFrame == [kind |-> "keepalive", data |-> "", id |-> 0]

\* mutant: the event frame is written without its event name
EventFrameUnnamed(s, i) == [kind |-> "message", data |-> s, id |-> i]

\* writer.write_event("value_changed", s) for the value of send number i
EventFrame(s, i) == [kind |-> "value_changed", data |-> s, id |-> i]

NoResp == [status |-> 0, body |-> "", ctype |-> ""]
NoReq == [method |-> "", prop |-> "", body |-> ""]

-----------------------------------------------------------------------------
\* embassy_sync::watch::Watch as used through WATCH

\* Watch::new()
WatchNew == [data |-> None, current_id |-> 0, receiver_count |-> 0]

\* Sender::send(val)
WatchSend(w, val) == [w EXCEPT !.data = Some(val), !.current_id = @ + 1]

\* mutant: receiver() hands out a receiver whatever the count is
ReceiverAlwaysAvailable(w) == TRUE

\* Watch::receiver() is Some exactly when a receiver slot is free
ReceiverAvailable(w) == w.receiver_count < WATCH_N

\* the Watch after receiver() returned Some
WatchReceiver(w) == [w EXCEPT !.receiver_count = @ + 1]

\* at_id of a receiver that receiver() has just made
NewReceiverId == 0

\* mutant: dropping a receiver also clears the stored value
WatchDropReceiverClears(w) == [w EXCEPT !.receiver_count = @ - 1, !.data = None]

\* mutant: dropping a receiver does not give its slot back
WatchDropReceiverLeaks(w) == w

\* Drop of a Receiver
WatchDropReceiver(w) == [w EXCEPT !.receiver_count = @ - 1]

\* Receiver::changed() is ready: a value is stored and is newer than at_id
ChangedReady(w, id) == w.data /= None /\ w.current_id > id

\* value.to_string() of the value a ready changed() returns
ValueString(v) == IF thing = "button" THEN BoolToString(v) ELSE F32ToString(v)

-----------------------------------------------------------------------------
\* Events::write_events (button.rs 121-144, thermometer.rs 141-164) and the
\* /events/<name> route that starts it

Subscribed(t) == pc[t] \in {"changed", "write"}

\* mutant: send waits until every receiver has taken the value before
SendWaitsForReceivers(w) ==
  \A t \in WebTasks : Subscribed(t) => at_id[t] = w.current_id

\* sender.send(..) is a plain call, not an .await: it can always run
SendReady(w) == TRUE

\* GET /events/<name>: the handler closure runs WATCH.receiver().unwrap() and the
\* stream enters the loop of write_events, suspended in with_timeout(changed()).
\* receiver() returning None makes unwrap() panic.
GetEvents(t) ==
  /\ ~halted /\ running = {} /\ pc[t] = "listen"
  /\ IF ReceiverAvailable(WATCH)
     THEN /\ WATCH' = WatchReceiver(WATCH)
          /\ at_id' = [at_id EXCEPT ![t] = NewReceiverId]
          /\ pc' = [pc EXCEPT ![t] = "changed"]
          /\ halted' = halted
     ELSE /\ halted' = TRUE
          /\ pc' = [pc EXCEPT ![t] = "panicked"]
          /\ UNCHANGED <<WATCH, at_id>>
  /\ UNCHANGED <<wifi, boot, thing, running, mutex, webVars, frame, sent, sent_since, buttonVars,
                 thermoVars, lightVars>>

\* mutant: changed() returns the value without moving the cursor
ChangedKeepsCursor(t) ==
  /\ ~halted /\ running = {} /\ pc[t] = "changed"
  /\ ChangedReady(WATCH, at_id[t])
  /\ frame' = [frame EXCEPT ![t] = EventFrame(ValueString(WATCH.data[1]), WATCH.current_id)]
  /\ pc' = [pc EXCEPT ![t] = "write"]
  /\ UNCHANGED <<wifi, boot, thing, running, halted, mutex, webVars, WATCH, at_id, sent, sent_since,
                 buttonVars, thermoVars, lightVars>>

\* with_timeout(15 s, self.0.changed()) returns Ok(value): the cursor moves to
\* current_id and write_event("value_changed", value.to_string()) starts
Changed(t) ==
  /\ ~halted /\ running = {} /\ pc[t] = "changed"
  /\ ChangedReady(WATCH, at_id[t])
  /\ at_id' = [at_id EXCEPT ![t] = WATCH.current_id]
  /\ frame' = [frame EXCEPT ![t] = EventFrame(ValueString(WATCH.data[1]), WATCH.current_id)]
  /\ pc' = [pc EXCEPT ![t] = "write"]
  /\ UNCHANGED <<wifi, boot, thing, running, halted, mutex, webVars, WATCH, sent, sent_since,
                 buttonVars, thermoVars, lightVars>>

\* mutant: the timeout path marks the latest value as seen
TimeoutAdvancesCursor(t) ==
  /\ ~halted /\ running = {} /\ pc[t] = "changed"
  /\ frame' = [frame EXCEPT ![t] = KeepaliveFrame]
  /\ at_id' = [at_id EXCEPT ![t] = WATCH.current_id]
  /\ pc' = [pc EXCEPT ![t] = "write"]
  /\ UNCHANGED <<wifi, boot, thing, running, halted, mutex, webVars, WATCH, sent, sent_since,
                 buttonVars, thermoVars, lightVars>>

\* with_timeout returns Err(TimeoutError): changed() was still pending when the
\* 15 s timer fired (the future is polled before the timer); write_keepalive starts
Timeout(t) ==
  /\ ~halted /\ running = {} /\ pc[t] = "changed"
  /\ ~ChangedReady(WATCH, at_id[t])
  /\ frame' = [frame EXCEPT ![t] = KeepaliveFrame]
  /\ pc' = [pc EXCEPT ![t] = "write"]
  /\ UNCHANGED <<wifi, boot, thing, running, halted, mutex, webVars, WATCH, at_id, sent, sent_since,
                 buttonVars, thermoVars, lightVars>>

\* write_event / write_keepalive returns Ok: the loop goes round
WriteOk(t) ==
  /\ ~halted /\ running = {} /\ pc[t] = "write"
  /\ pc' = [pc EXCEPT ![t] = "changed"]
  /\ UNCHANGED <<wifi, boot, thing, running, halted, mutex, webVars, eventVars, buttonVars,
                 thermoVars, lightVars>>

\* write_event / write_keepalive returns Err: `?` leaves write_events, self (the
\* Receiver) is dropped, the web task closes the connection
WriteErr(t) ==
  /\ ~halted /\ running = {} /\ pc[t] = "write"
  /\ WATCH' = WatchDropReceiver(WATCH)
  /\ frame' = [frame EXCEPT ![t] = NoFrame]
  /\ at_id' = [at_id EXCEPT ![t] = 0]
  /\ sent_since' = [sent_since EXCEPT ![t] = FALSE]
  /\ pc' = [pc EXCEPT ![t] = "closed"]
  /\ UNCHANGED <<wifi, boot, thing, running, halted, mutex, webVars, sent, buttonVars, thermoVars,
                 lightVars>>

\* listen_and_serve_with_state: the socket of the failed connection has been
\* closed and the web task accepts connections again
SocketClosed(t) ==
  /\ ~halted /\ running = {} /\ pc[t] = "closed"
  /\ pc' = [pc EXCEPT ![t] = "listen"]
  /\ UNCHANGED <<wifi, boot, thing, running, halted, mutex, webVars, eventVars, buttonVars,
                 thermoVars, lightVars>>

\* the response has been written; the web task waits for the next request of
\* the connection, or accepts a new connection
Responded(t) ==
  /\ ~halted /\ running = {} /\ pc[t] = "respond"
  /\ pc' = [pc EXCEPT ![t] = "listen"]
  /\ req' = [req EXCEPT ![t] = NoReq]
  /\ resp' = [resp EXCEPT ![t] = NoResp]
  /\ k_start' = [k_start EXCEPT ![t] = 0]
  /\ reading' = [reading EXCEPT ![t] = NoResult]
  /\ put_arg' = [put_arg EXCEPT ![t] = None]
  /\ UNCHANGED <<wifi, boot, thing, running, halted, mutex, eventVars, buttonVars, fault, temp, hum,
                 cycles, readings, prev_data, cycle_sends, pending, light, led,
                 led_fault, last_put>>

\* the paths under which a client looks for the Thing Description
TdPaths == {"/", "/.well-known/wot"}

\* the Thing Description document, serde_json::to_string(&td)
TD == "td"

\* the router's answer when it has no route for the path
NotFound == [status |-> 404, body |-> "", ctype |-> ""]

\* button.rs: "/" serves the document, "/.well-known/wot" is
\* Redirect::to("/") (303 See Other, Location: /)
TdResponseButton(path) ==
  CASE path = "/" -> [status |-> 200, body |-> TD, ctype |-> "application/td+json"]
    [] path = "/.well-known/wot" -> [status |-> 303, body |-> "", ctype |-> ""]
    [] OTHER -> NotFound

\* thermometer.rs: only "/.well-known/wot" is routed
TdResponseThermometer(path) ==
  CASE path = "/.well-known/wot" ->
         [status |-> 200, body |-> TD, ctype |-> "application/td+json"]
    [] OTHER -> NotFound

\* async_main.rs: only "/.well-known/wot" is routed; the handler returns the
\* &str itself, which picoserve sends as text/plain
TdResponseAsyncMain(path) ==
  CASE path = "/.well-known/wot" ->
         [status |-> 200, body |-> TD, ctype |-> "text/plain; charset=utf-8"]
    [] OTHER -> NotFound

\* light.rs: only "/.well-known/wot" is routed, with Content-Type application/json
TdResponseLight(path) ==
  CASE path = "/.well-known/wot" ->
         [status |-> 200, body |-> TD, ctype |-> "application/json"]
    [] OTHER -> NotFound

\* the answer of the running binary's router to GET path
TdResponse(path) ==
  CASE thing = "button" -> TdResponseButton(path)
    [] thing = "thermometer" -> TdResponseThermometer(path)
    [] thing = "async_main" -> TdResponseAsyncMain(path)
    [] thing = "light" -> TdResponseLight(path)

\* GET / or GET /.well-known/wot: the router produces the response, which is
\* then written to the socket
GetTd(t, path) ==
  /\ ~halted /\ running = {} /\ pc[t] = "listen"
  /\ req' = [req EXCEPT ![t] = [method |-> "GET", prop |-> path, body |-> ""]]
  /\ resp' = [resp EXCEPT ![t] = TdResponse(path)]
  /\ pc' = [pc EXCEPT ![t] = "respond"]
  /\ UNCHANGED <<wifi, boot, thing, running, halted, mutex, k_start, eventVars, buttonVars,
                 thermoVars, lightVars>>

-----------------------------------------------------------------------------
\* The button Thing (src/bin/button.rs)

\* environment: the button is pressed (GPIO9 goes low) / released
Press ==
  /\ ~halted /\ running = {} /\ btn = "high"
  /\ btn' = "low"
  /\ UNCHANGED <<wifi, boot, thing, running, halted, pc, mutex, webVars, eventVars,
                 on, upd_on, toggles, thermoVars, lightVars>>

Release ==
  /\ ~halted /\ running = {} /\ btn = "low"
  /\ btn' = "high"
  /\ UNCHANGED <<wifi, boot, thing, running, halted, pc, mutex, webVars, eventVars,
                 on, upd_on, toggles, thermoVars, lightVars>>

\* update_task: btn.wait_for_low().await completes
WaitForLow ==
  /\ ~halted /\ running = {} /\ pc[UpdateTask] = "wait_for_low" /\ btn = "low"
  /\ toggles < MaxPresses
  /\ pc' = [pc EXCEPT ![UpdateTask] = "fetch_not"]
  /\ running' = {UpdateTask}
  /\ UNCHANGED <<wifi, boot, thing, halted, mutex, webVars, eventVars, buttonVars, thermoVars,
                 lightVars>>

\* mutant: the `!` is missing, the value fetch_not returned is sent
FetchNotResultOld(old) == old

\* the value of `!state.on.fetch_not(AcqRel)`: fetch_not returns the old value
FetchNotResult(old) == ~old

\* update_task: let on = !state.on.fetch_not(AcqRel)
\* mutant: a suspension point between fetch_not and send
FetchNotYields ==
  /\ ~halted /\ running = {UpdateTask} /\ pc[UpdateTask] = "fetch_not"
  /\ on' = ~on
  /\ upd_on' = FetchNotResult(on)
  /\ toggles' = toggles + 1
  /\ pc' = [pc EXCEPT ![UpdateTask] = "send"]
  /\ running' = {}
  /\ UNCHANGED <<wifi, boot, thing, halted, mutex, webVars, eventVars, btn, thermoVars,
                 lightVars>>

FetchNot ==
  /\ ~halted /\ running = {UpdateTask} /\ pc[UpdateTask] = "fetch_not"
  /\ on' = ~on
  /\ upd_on' = FetchNotResult(on)
  /\ toggles' = toggles + 1
  /\ pc' = [pc EXCEPT ![UpdateTask] = "send"]
  /\ UNCHANGED <<wifi, boot, thing, running, halted, mutex, webVars, eventVars, btn, thermoVars,
                 lightVars>>

\* update_task: sender.send(on); then it suspends in btn.wait_for_high()
Send ==
  /\ ~halted /\ running = {UpdateTask} /\ pc[UpdateTask] = "send"
  /\ SendReady(WATCH)
  /\ WATCH' = WatchSend(WATCH, upd_on)
  /\ sent' = Append(sent, upd_on)
  /\ sent_since' = [t \in WebTasks |-> Subscribed(t)]
  /\ pc' = [pc EXCEPT ![UpdateTask] = "wait_for_high"]
  /\ running' = {}
  /\ UNCHANGED <<wifi, boot, thing, halted, mutex, webVars, at_id, frame, buttonVars, thermoVars,
                 lightVars>>

\* update_task: btn.wait_for_high().await completes and the loop goes round
WaitForHigh ==
  /\ ~halted /\ running = {} /\ pc[UpdateTask] = "wait_for_high" /\ btn = "high"
  /\ pc' = [pc EXCEPT ![UpdateTask] = "wait_for_low"]
  /\ UNCHANGED <<wifi, boot, thing, running, halted, mutex, webVars, eventVars, buttonVars,
                 thermoVars, lightVars>>

\* to_json_response(&bool) of lib.rs
to_json_response(b) ==
  [status |-> 200, body |-> BoolToString(b), ctype |-> "application/json"]

\* mutant: the handler reads the value AppState was built with
LoadOnStale == FALSE

\* the value GET /properties/on reads: state.on.load(Relaxed)
LoadOn == on

\* GET /properties/on: the handler starts
GetPropertiesOn(t) ==
  /\ ~halted /\ running = {} /\ pc[t] = "listen"
  /\ pc' = [pc EXCEPT ![t] = "on_load"]
  /\ running' = {t}
  /\ k_start' = [k_start EXCEPT ![t] = WATCH.current_id]
  /\ UNCHANGED <<wifi, boot, thing, halted, mutex, req, resp, eventVars, buttonVars, thermoVars,
                 lightVars>>

\* GET /properties/on: state.on.load(Relaxed), to_json_response(&on); the
\* response is then written to the socket
PropertiesOnLoad(t) ==
  /\ ~halted /\ running = {t} /\ pc[t] = "on_load"
  /\ resp' = [resp EXCEPT ![t] = to_json_response(LoadOn)]
  /\ pc' = [pc EXCEPT ![t] = "respond"]
  /\ running' = {}
  /\ UNCHANGED <<wifi, boot, thing, halted, mutex, req, k_start, eventVars, buttonVars, thermoVars,
                 lightVars>>

-----------------------------------------------------------------------------
\* The thermometer Thing (src/bin/thermometer.rs) and async_main.rs

\* environment: reading the SHTC3 starts to fail / works again; the measured
\* temperature changes
SensorFault ==
  /\ ~halted /\ running = {} /\ ~fault
  /\ fault' = TRUE
  /\ UNCHANGED <<wifi, boot, thing, running, halted, pc, mutex, webVars, eventVars, buttonVars,
                 temp, hum, reading, cycles, readings, prev_data, cycle_sends, pending,
                 lightVars>>

SensorRecover ==
  /\ ~halted /\ running = {} /\ fault
  /\ fault' = FALSE
  /\ UNCHANGED <<wifi, boot, thing, running, halted, pc, mutex, webVars, eventVars, buttonVars,
                 temp, hum, reading, cycles, readings, prev_data, cycle_sends, pending,
                 lightVars>>

TempChange(v) ==
  /\ ~halted /\ running = {} /\ v /= temp
  /\ temp' = v
  /\ UNCHANGED <<wifi, boot, thing, running, halted, pc, mutex, webVars, eventVars, buttonVars,
                 fault, hum, reading, cycles, readings, prev_data, cycle_sends, pending,
                 lightVars>>

\* the property a task's sensor read is about
PropOf(t) == IF t = UpdateTask THEN "temperature" ELSE req[t].prop

\* get_temperature_measurement_result()?.as_degrees_celsius() and
\* get_humidity_measurement_result()?.as_percent()
SensorRead(p) ==
  IF fault THEN Err ELSE Ok(IF p = "temperature" THEN temp ELSE hum)

\* mutant: the guard is not dropped when the read failed
GuardLeakedOnErr(t) == IF reading[t].tag = "Err" THEN mutex ELSE {}

\* mutant: the guard outlives the expression and is still held at the next .await
GuardKept(t) == mutex

\* the holder of the Mutex after the MutexGuard of task t is dropped
GuardDropped(t) == {}

\* a client connects and sends a GET of a property; the connection waits in the
\* network stack until a web task accepts it
ClientConnects ==
  /\ ~halted /\ running = {} /\ ~pending
  /\ pending' = TRUE
  /\ UNCHANGED <<wifi, boot, thing, running, halted, pc, mutex, webVars, eventVars, buttonVars,
                 fault, temp, hum, reading, cycles, readings, prev_data, cycle_sends,
                 lightVars>>

\* GET /properties/temperature, GET /properties/humidity: a web task that is
\* listening accepts the connection and the handler starts
GetProperty(t, p) ==
  /\ ~halted /\ running = {} /\ pc[t] = "listen"
  /\ pc' = [pc EXCEPT ![t] = "lock"]
  /\ req' = [req EXCEPT ![t] = [method |-> "GET", prop |-> p, body |-> ""]]
  /\ running' = {t}
  /\ pending' = FALSE
  /\ UNCHANGED <<wifi, boot, thing, halted, mutex, resp, k_start, eventVars, buttonVars,
                 fault, temp, hum, reading, cycles, readings, prev_data, cycle_sends,
                 lightVars>>

\* self.sensor.lock().await: granted at once when the Mutex is free, else the
\* task suspends and tries again when it is polled
Lock(t) ==
  /\ ~halted /\ running \subseteq {t} /\ pc[t] = "lock"
  /\ IF mutex = {}
     THEN /\ mutex' = {t}
          /\ pc' = [pc EXCEPT ![t] = IF thing = "light" THEN "locked" ELSE "read"]
          /\ running' = {t}
     ELSE /\ running' = {}
          /\ UNCHANGED <<mutex, pc>>
  /\ UNCHANGED <<wifi, boot, thing, halted, webVars, eventVars, buttonVars, thermoVars, lightVars>>

\* the sensor is read through the guard
Read(t) ==
  /\ ~halted /\ running = {t} /\ pc[t] = "read" /\ mutex = {t}
  /\ reading' = [reading EXCEPT ![t] = SensorRead(PropOf(t))]
  /\ readings' = IF t = UpdateTask /\ ~fault THEN Append(readings, temp) ELSE readings
  /\ pc' = [pc EXCEPT ![t] = "unlock"]
  /\ UNCHANGED <<wifi, boot, thing, running, halted, mutex, webVars, eventVars, buttonVars,
                 fault, temp, hum, cycles, prev_data, cycle_sends, pending, lightVars>>

\* the temporary MutexGuard is dropped: on Err when `?` returns, on Ok at the end
\* of the expression
Unlock(t) ==
  /\ ~halted /\ running = {t} /\ pc[t] = "unlock"
  /\ mutex' = GuardDropped(t)
  /\ pc' = [pc EXCEPT ![t] = IF t = UpdateTask THEN "send" ELSE "make_resp"]
  /\ UNCHANGED <<wifi, boot, thing, running, halted, webVars, eventVars, buttonVars, thermoVars,
                 lightVars>>

\* the Content-Type header the handler sets on its 200 / on its 500
OkType == IF thing = "thermometer" THEN "application/json" ELSE ""
ErrType == IF thing = "thermometer" THEN "text/plain" ELSE ""

\* mutant: the handler answers 200 whatever the Result
ResponseOfAlwaysOk(p, r) ==
  [status |-> 200, body |-> F32ToString(r.val), ctype |-> OkType]

\* the response of GET /properties/<p> for the Result r of the sensor read
ResponseOf(p, r) ==
  IF r.tag = "Ok"
  THEN [status |-> 200, body |-> F32ToString(r.val), ctype |-> OkType]
  ELSE [status |-> 500,
        body |-> IF p = "temperature" THEN "Failed to read temperature value."
                 ELSE "Failed to read humidity value.",
        ctype |-> ErrType]

\* the handler returns its Response, which is then written to the socket
PropertyResponse(t) ==
  /\ ~halted /\ running = {t} /\ pc[t] = "make_resp"
  /\ resp' = [resp EXCEPT ![t] = ResponseOf(req[t].prop, reading[t])]
  /\ pc' = [pc EXCEPT ![t] = "respond"]
  /\ running' = {}
  /\ UNCHANGED <<wifi, boot, thing, halted, mutex, req, k_start, eventVars, buttonVars, thermoVars,
                 lightVars>>

\* temperature_write_task: Timer::after(15 s).await completes;
\* state.get_temperature() starts
TimerFired ==
  /\ ~halted /\ running = {} /\ pc[UpdateTask] = "timer"
  /\ cycles < MaxCycles
  /\ cycles' = cycles + 1
  /\ prev_data' = WATCH.data
  /\ cycle_sends' = 0
  /\ reading' = [reading EXCEPT ![UpdateTask] = NoResult]
  /\ pc' = [pc EXCEPT ![UpdateTask] = "lock"]
  /\ running' = {UpdateTask}
  /\ UNCHANGED <<wifi, boot, thing, halted, mutex, webVars, eventVars, buttonVars, fault, temp, hum,
                 readings, pending, lightVars>>

\* mutant: the task sends whatever the read returned
ShouldSendAlways(r) == TRUE

\* mutant: a deadband that truncates to tenths instead of rounding
ShouldSendTruncated(r) ==
  /\ r.tag = "Ok"
  /\ (WATCH.data = None \/ r.val \div 10 /= WATCH.data[1] \div 10)

\* temperature_write_task: `if let Ok(temperature) = temperature`
ShouldSend(r) == r.tag = "Ok"

\* temperature_write_task: sender.send(temperature) under the if let; the loop
\* goes round to the timer
WriteTaskSend ==
  /\ ~halted /\ running = {UpdateTask} /\ pc[UpdateTask] = "send"
  /\ IF ShouldSend(reading[UpdateTask])
     THEN /\ SendReady(WATCH)
          /\ WATCH' = WatchSend(WATCH, reading[UpdateTask].val)
          /\ sent' = Append(sent, reading[UpdateTask].val)
          /\ sent_since' = [t \in WebTasks |-> Subscribed(t)]
          /\ cycle_sends' = cycle_sends + 1
     ELSE UNCHANGED <<WATCH, sent, sent_since, cycle_sends>>
  /\ pc' = [pc EXCEPT ![UpdateTask] = "timer"]
  /\ running' = {}
  /\ UNCHANGED <<wifi, boot, thing, halted, mutex, webVars, at_id, frame, buttonVars,
                 fault, temp, hum, reading, cycles, readings, prev_data, pending,
                 lightVars>>

-----------------------------------------------------------------------------
\* The light Thing (src/bin/light.rs)

\* RGB8 values of the explored runs; WHITE is smart_leds::colors::WHITE
WHITE == [r |-> 255, g |-> 255, b |-> 255]
RED == [r |-> 255, g |-> 0, b |-> 0]
BLACK == [r |-> 0, g |-> 0, b |-> 0]

LightProps == {"on", "brightness", "color"}

\* request bodies of the explored PUTs (' stands for the JSON double quote)
Bodies(p) ==
  CASE p = "on" -> {"true", "false", "1"}
    [] p = "brightness" -> {"0", "255", "256"}
    [] p = "color" -> {"{'r':255,'g':0,'b':0}", "{'r':0,'g':0,'b':0}", "{'r':255}"}

\* mutant: a parser that coerces 1 to true, saturates 256 and defaults the
\* missing channels of a color
ParseJsonLenient(p, s) ==
  CASE p = "on" /\ s = "true" -> Some(TRUE)
    [] p = "on" /\ s = "false" -> Some(FALSE)
    [] p = "on" /\ s = "1" -> Some(TRUE)
    [] p = "brightness" /\ s = "0" -> Some(0)
    [] p = "brightness" /\ s = "255" -> Some(255)
    [] p = "brightness" /\ s = "256" -> Some(255)
    [] p = "color" /\ s = "{'r':255,'g':0,'b':0}" -> Some(RED)
    [] p = "color" /\ s = "{'r':0,'g':0,'b':0}" -> Some(BLACK)
    [] p = "color" /\ s = "{'r':255}" -> Some(RED)
    [] OTHER -> None

\* picoserve::extract::Json: serde_json's parse of the body as bool / u8 / RGB8
ParseJson(p, s) ==
  CASE p = "on" /\ s = "true" -> Some(TRUE)
    [] p = "on" /\ s = "false" -> Some(FALSE)
    [] p = "brightness" /\ s = "0" -> Some(0)
    [] p = "brightness" /\ s = "100" -> Some(100)
    [] p = "brightness" /\ s = "255" -> Some(255)
    [] p = "color" /\ s = "{'r':255,'g':0,'b':0}" -> Some(RED)
    [] p = "color" /\ s = "{'r':0,'g':0,'b':0}" -> Some(BLACK)
    [] p = "color" /\ s = "{'r':255,'g':255,'b':255}" -> Some(WHITE)
    [] OTHER -> None

\* serde_json::to_string of a bool / u8 / RGB8
ToJson(p, v) ==
  CASE p = "on" -> BoolToString(v)
    [] p = "brightness" ->
         (CASE v = 0 -> "0" [] v = 100 -> "100" [] v = 255 -> "255" [] OTHER -> "?")
    [] p = "color" ->
         (CASE v = RED -> "{'r':255,'g':0,'b':0}"
            [] v = BLACK -> "{'r':0,'g':0,'b':0}"
            [] v = WHITE -> "{'r':255,'g':255,'b':255}"
            [] OTHER -> "?")

\* smart_leds::gamma on one channel, for the channel values of the colors above
Gamma8(x) == CASE x = 0 -> 0 [] x = 255 -> 255

\* smart_leds::brightness on one channel
Scale(x, level) == (x * (level + 1)) \div 256

\* mutant: update() scales by the stored brightness even when the light is off
LedFrameIgnoresPower(l) ==
  [r |-> Scale(Gamma8(l.color.r), l.brightness),
   g |-> Scale(Gamma8(l.color.g), l.brightness),
   b |-> Scale(Gamma8(l.color.b), l.brightness)]

\* Light::update: the frame written to the LED
LedFrame(l) ==
  LET b == IF l.on THEN l.brightness ELSE 0
  IN [r |-> Scale(Gamma8(l.color.r), b),
      g |-> Scale(Gamma8(l.color.g), b),
      b |-> Scale(Gamma8(l.color.b), b)]

\* mutant: brightness() and rgb() also switch the light on
SetFieldPowersOn(l, p, v) ==
  IF p = "on" THEN [l EXCEPT !.on = v] ELSE [[l EXCEPT ![p] = v] EXCEPT !.on = TRUE]

\* mutant: power() updates the LED without storing `on`
SetFieldNoPower(l, p, v) == IF p = "on" THEN l ELSE [l EXCEPT ![p] = v]

\* Light::power / brightness / rgb: the field assignment
SetField(l, p, v) == [l EXCEPT ![p] = v]

\* environment: writing to the LED starts to fail / works again
LedFault ==
  /\ ~halted /\ running = {}
  /\ led_fault' = ~led_fault
  /\ UNCHANGED <<wifi, boot, thing, running, halted, pc, mutex, webVars, eventVars, buttonVars,
                 thermoVars, light, led, put_arg, last_put>>

\* GET /properties/<p>: the handler starts
GetLight(t, p) ==
  /\ ~halted /\ running = {} /\ pc[t] = "listen"
  /\ req' = [req EXCEPT ![t] = [method |-> "GET", prop |-> p, body |-> ""]]
  /\ pc' = [pc EXCEPT ![t] = "lock"]
  /\ running' = {t}
  /\ UNCHANGED <<wifi, boot, thing, halted, mutex, resp, k_start, eventVars, buttonVars, thermoVars,
                 lightVars>>

\* PUT /properties/<p> with body s: the Json extractor parses the body; a body
\* that does not parse is answered 400 without the handler being called
PutLight(t, p, s) ==
  /\ ~halted /\ running = {} /\ pc[t] = "listen"
  /\ req' = [req EXCEPT ![t] = [method |-> "PUT", prop |-> p, body |-> s]]
  /\ IF ParseJson(p, s) = None
     THEN /\ resp' = [resp EXCEPT ![t] = [status |-> 400, body |-> "Bad JSON", ctype |-> ""]]
          /\ pc' = [pc EXCEPT ![t] = "respond"]
          /\ UNCHANGED <<running, put_arg>>
     ELSE /\ put_arg' = [put_arg EXCEPT ![t] = ParseJson(p, s)]
          /\ pc' = [pc EXCEPT ![t] = "lock"]
          /\ running' = {t}
          /\ resp' = resp
  /\ UNCHANGED <<wifi, boot, thing, halted, mutex, k_start, eventVars, buttonVars, thermoVars,
                 light, led, led_fault, last_put>>

\* GET: to_json_response(&guard.<p>) is evaluated while the guard is alive
LightRead(t) ==
  /\ ~halted /\ running = {t} /\ pc[t] = "locked" /\ req[t].method = "GET"
  /\ resp' = [resp EXCEPT ![t] = [status |-> 200,
                                  body |-> ToJson(req[t].prop, light[req[t].prop]),
                                  ctype |-> "application/json"]]
  /\ pc' = [pc EXCEPT ![t] = "unlock"]
  /\ UNCHANGED <<wifi, boot, thing, running, halted, mutex, req, k_start, eventVars, buttonVars,
                 thermoVars, lightVars>>

\* PUT: Light::power(on) / brightness(b) / rgb(rgb) assigns the field
LightWrite(t) ==
  /\ ~halted /\ running = {t} /\ pc[t] = "locked" /\ req[t].method = "PUT"
  /\ light' = SetField(light, req[t].prop, put_arg[t][1])
  /\ pc' = [pc EXCEPT ![t] = "update"]
  /\ UNCHANGED <<wifi, boot, thing, running, halted, mutex, webVars, eventVars, buttonVars,
                 thermoVars, led, led_fault, put_arg, last_put>>

\* PUT: self.update(): self.led.write(brightness(gamma(color), b)).unwrap()
LightUpdate(t) ==
  /\ ~halted /\ running = {t} /\ pc[t] = "update"
  /\ IF led_fault
     THEN /\ halted' = TRUE
          /\ pc' = [pc EXCEPT ![t] = "panicked"]
          /\ led' = led
     ELSE /\ led' = Some(LedFrame(light))
          /\ pc' = [pc EXCEPT ![t] = "unlock"]
          /\ halted' = halted
  /\ UNCHANGED <<wifi, boot, thing, running, mutex, webVars, eventVars, buttonVars, thermoVars,
                 light, led_fault, put_arg, last_put>>

\* the handler returns: StatusCode::NO_CONTENT for a PUT, the JSON response for
\* a GET; the response is then written to the socket
LightResponse(t) ==
  /\ ~halted /\ running = {t} /\ pc[t] = "make_resp" /\ thing = "light"
  /\ IF req[t].method = "PUT"
     THEN /\ resp' = [resp EXCEPT ![t] = [status |-> 204, body |-> "", ctype |-> ""]]
          /\ last_put' = [last_put EXCEPT ![req[t].prop] = put_arg[t]]
     ELSE UNCHANGED <<resp, last_put>>
  /\ pc' = [pc EXCEPT ![t] = "respond"]
  /\ running' = {}
  /\ UNCHANGED <<wifi, boot, thing, halted, mutex, req, k_start, eventVars, buttonVars, thermoVars,
                 light, led, led_fault, put_arg>>

-----------------------------------------------------------------------------
\* Start of main: the network comes up, then the tasks are spawned

\* the four binaries
Things == {"button", "thermometer", "async_main", "light"}

\* the binaries whose main spawns mdns_task
HasMdns(th) == th = "button"

\* the base URI main formats from the address of config_v4()
BaseUri == "http://ip"

\* main once its loops are over and its tasks are spawned
Booted(th) ==
  [main |-> "spawned", link |-> TRUE, ip |-> TRUE, base_uri |-> Some(BaseUri),
   mdns |-> HasMdns(th)]

\* everything but boot and pc
taskVars == <<wifi, thing, running, halted, mutex, webVars, eventVars, buttonVars, thermoVars,
              lightVars>>

\* connection task: connect_async() returns Ok, the link is up
LinkUp ==
  /\ boot.main /= "spawned" /\ ~boot.link
  /\ boot' = [boot EXCEPT !.link = TRUE]
  /\ UNCHANGED <<pc, taskVars>>

\* the station is disconnected: the link is down and the address is gone
LinkDown ==
  /\ boot.main /= "spawned" /\ boot.link
  /\ boot' = [boot EXCEPT !.link = FALSE, !.ip = FALSE]
  /\ UNCHANGED <<pc, taskVars>>

\* net_task: DHCP has configured an IPv4 address on the link
DhcpBound ==
  /\ boot.main /= "spawned" /\ boot.link /\ ~boot.ip
  /\ boot' = [boot EXCEPT !.ip = TRUE]
  /\ UNCHANGED <<pc, taskVars>>

\* stack.is_link_up()
IsLinkUp(b) == b.link

\* mutant: the second loop does not wait for an address
GotAddressAlways(b) == TRUE

\* `if let Some(config) = stack.config_v4()`
GotAddress(b) == b.ip

\* the base URI made from config_v4(), None when there is no address
ConfigV4(b) == IF b.ip THEN Some(BaseUri) ELSE None

\* the position each task starts at when main spawns it
SpawnedPc(th) ==
  [t \in Tasks |->
     IF t = UpdateTask
     THEN (CASE th = "button" -> "wait_for_low"
             [] th = "thermometer" -> "timer"
             [] OTHER -> "absent")
     ELSE "listen"]

\* main: the first loop ends once is_link_up() is true (it sleeps 500 ms and
\* looks again otherwise)
MainLinkUp ==
  /\ boot.main = "link_wait" /\ IsLinkUp(boot)
  /\ boot' = [boot EXCEPT !.main = "ip_wait"]
  /\ UNCHANGED <<pc, taskVars>>

\* main: the second loop ends once config_v4() is Some; base_uri is formatted,
\* the Thing Description built, and the update task, mdns_task and the web
\* tasks are spawned, with no .await in between
MainGotIp ==
  /\ boot.main = "ip_wait" /\ GotAddress(boot)
  /\ boot' = [boot EXCEPT !.main = "spawned", !.base_uri = ConfigV4(boot),
                          !.mdns = HasMdns(thing)]
  /\ pc' = SpawnedPc(thing)
  /\ UNCHANGED taskVars

-----------------------------------------------------------------------------
\* The connection task (lib.rs, and its copies in thermometer.rs, light.rs and
\* async_main.rs). Its steps are followed in SpecConnection; the other
\* specifications keep wifi as it is when the task is spawned and see the link
\* through boot.link.

\* everything but wifi and halted
restVars == <<boot, thing, running, pc, mutex, webVars, eventVars, buttonVars, thermoVars,
              lightVars>>

\* the driver before start: wifi_state() is Invalid, the task at the top of its loop
WifiNew ==
  [pc |-> "top", state |-> "Invalid", event |-> FALSE, fails |-> 0, attempts |-> 0]

\* controller.is_started() reports Ok(true): the station was started
IsStarted(w) == w.state \in {"StaStarted", "StaConnected", "StaDisconnected"}

\* `if wifi_state() == WifiState::StaConnected`
IsConnected(w) == w.state = "StaConnected"

\* top of the loop: connected, the task clears the StaDisconnected event and
\* suspends in wait_for_event; otherwise it goes on to the is_started check
ConnTop ==
  /\ ~halted /\ wifi.pc = "top"
  /\ wifi' = IF IsConnected(wifi)
             THEN [wifi EXCEPT !.pc = "wait_for_event", !.event = FALSE]
             ELSE [wifi EXCEPT !.pc = "is_started"]
  /\ UNCHANGED <<halted, restVars>>

\* environment: the access point drops the station; the driver records
\* StaDisconnected and raises the event
Disconnected ==
  /\ ~halted /\ wifi.state = "StaConnected"
  /\ wifi' = [wifi EXCEPT !.state = "StaDisconnected", !.event = TRUE]
  /\ UNCHANGED <<halted, restVars>>

\* wait_for_event(StaDisconnected) completes; Timer::after(5000 ms) starts
WaitForEventDone ==
  /\ ~halted /\ wifi.pc = "wait_for_event" /\ wifi.event
  /\ wifi' = [wifi EXCEPT !.pc = "delay_disconnected"]
  /\ UNCHANGED <<halted, restVars>>

\* the 5 s after a disconnection are over
DisconnectedDelayDone ==
  /\ ~halted /\ wifi.pc = "delay_disconnected"
  /\ wifi' = [wifi EXCEPT !.pc = "is_started"]
  /\ UNCHANGED <<halted, restVars>>

\* `if !matches!(controller.is_started(), Ok(true))`: started, the task goes
\* to connect; not started, set_configuration(..).unwrap() runs, Ok (the task
\* suspends in start_async) or Err (unwrap panics)
IsStartedCheck(ok) ==
  /\ ~halted /\ wifi.pc = "is_started"
  /\ IF IsStarted(wifi)
     THEN /\ wifi' = [wifi EXCEPT !.pc = "connect"]
          /\ halted' = halted
     ELSE IF ok
          THEN /\ wifi' = [wifi EXCEPT !.pc = "start_async"]
               /\ halted' = halted
          ELSE /\ wifi' = [wifi EXCEPT !.pc = "panicked"]
               /\ halted' = TRUE
  /\ UNCHANGED restVars

\* start_async().await.unwrap(): Ok, the station is started; Err, unwrap panics
StartAsyncDone(ok) ==
  /\ ~halted /\ wifi.pc = "start_async"
  /\ IF ok
     THEN /\ wifi' = [wifi EXCEPT !.pc = "connect", !.state = "StaStarted"]
          /\ halted' = halted
     ELSE /\ wifi' = [wifi EXCEPT !.pc = "panicked"]
          /\ halted' = TRUE
  /\ UNCHANGED restVars

\* connect_async() is called: it clears the events and suspends
ConnectAsync ==
  /\ ~halted /\ wifi.pc = "connect" /\ wifi.attempts < MaxAttempts
  /\ wifi' = [wifi EXCEPT !.pc = "connect_async", !.event = FALSE,
                          !.attempts = @ + 1]
  /\ UNCHANGED <<halted, restVars>>

\* connect_async() returns: Ok(()) with the station connected, and the loop
\* goes round; Err(e) with the station disconnected, and Timer::after(5000 ms)
\* starts
ConnectAsyncDone(ok) ==
  /\ ~halted /\ wifi.pc = "connect_async"
  /\ wifi' = IF ok
             THEN [wifi EXCEPT !.pc = "top", !.state = "StaConnected", !.fails = 0]
             ELSE [wifi EXCEPT !.pc = "delay_failed", !.state = "StaDisconnected",
                               !.event = TRUE, !.fails = @ + 1]
  /\ UNCHANGED <<halted, restVars>>

\* the 5 s after a failed connect_async are over: the loop goes round
FailedDelayDone ==
  /\ ~halted /\ wifi.pc = "delay_failed"
  /\ wifi' = [wifi EXCEPT !.pc = "top"]
  /\ UNCHANGED <<halted, restVars>>

-----------------------------------------------------------------------------
\* Initial states and next-state relations

\* what every Thing starts with: the web tasks listening, WATCH new
InitCommon ==
  /\ running = {} /\ halted = FALSE /\ mutex = {}
  /\ wifi = WifiNew
  /\ req = [t \in WebTasks |-> NoReq]
  /\ resp = [t \in WebTasks |-> NoResp]
  /\ k_start = [t \in WebTasks |-> 0]
  /\ WATCH = WatchNew
  /\ at_id = [t \in WebTasks |-> 0]
  /\ frame = [t \in WebTasks |-> NoFrame]
  /\ sent = <<>>
  /\ sent_since = [t \in WebTasks |-> FALSE]
  /\ reading = [t \in Tasks |-> NoResult]
  /\ put_arg = [t \in WebTasks |-> None]
  /\ last_put = [p \in LightProps |-> None]

\* values of the variables a Thing does not have
NoButton == on = FALSE /\ upd_on = FALSE /\ btn = "high" /\ toggles = 0
NoThermo ==
  /\ fault = FALSE /\ temp = 0 /\ hum = 0 /\ pending = FALSE
  /\ cycles = 0 /\ readings = <<>> /\ prev_data = None /\ cycle_sends = 0
NoLight ==
  /\ light = [on |-> FALSE, brightness |-> 0, color |-> BLACK]
  /\ led = None /\ led_fault = FALSE

\* button.rs main: AtomicBool::new(false), update_task and the web tasks spawned
InitButton ==
  /\ thing = "button"
  /\ boot = Booted(thing)
  /\ InitCommon
  /\ on = FALSE /\ upd_on = FALSE /\ btn = "high" /\ toggles = 0
  /\ pc = [t \in Tasks |-> IF t = UpdateTask THEN "wait_for_low" ELSE "listen"]
  /\ NoThermo /\ NoLight

NextButton ==
  \/ Press
  \/ Release
  \/ WaitForLow
  \/ FetchNot
  \/ Send
  \/ WaitForHigh
  \/ \E t \in WebTasks : GetPropertiesOn(t)
  \/ \E t \in WebTasks : PropertiesOnLoad(t)
  \/ \E t \in WebTasks : Responded(t)
  \/ \E t \in WebTasks : GetEvents(t)
  \/ \E t \in WebTasks : Changed(t)
  \/ \E t \in WebTasks : Timeout(t)
  \/ \E t \in WebTasks : WriteOk(t)
  \/ \E t \in WebTasks : WriteErr(t)
  \/ \E t \in WebTasks : SocketClosed(t)

SpecButton == InitButton /\ [][NextButton]_vars

\* the executor polls every task that has been woken: a handler whose changed()
\* is ready or whose socket write has ended runs again, a running segment runs
\* to its next .await, and update_task runs on from a wait that has completed;
\* nothing obliges the button to be pressed or a request to arrive.  A woken
\* task stays in the run queue while other tasks run their segments, hence
\* strong fairness for the steps that start a segment.
FairSpecButton ==
  /\ SpecButton
  /\ \A t \in ButtonTasks :
       /\ SF_vars(Changed(t)) /\ SF_vars(WriteOk(t) \/ WriteErr(t))
       /\ WF_vars(PropertiesOnLoad(t)) /\ SF_vars(Responded(t))
       /\ SF_vars(SocketClosed(t))
  /\ SF_vars(WaitForLow) /\ WF_vars(FetchNot) /\ WF_vars(Send) /\ SF_vars(WaitForHigh)

\* thermometer.rs main: the sensor behind its Mutex, one web task, then
\* temperature_write_task; async_main.rs main: the same without WATCH and the
\* update task
InitThermometer ==
  /\ thing \in {"thermometer", "async_main"}
  /\ boot = Booted(thing)
  /\ InitCommon
  /\ fault = FALSE /\ temp = 2000 /\ hum \in Humidities /\ pending = FALSE
  /\ cycles = 0 /\ readings = <<>> /\ prev_data = None /\ cycle_sends = 0
  /\ pc = [t \in Tasks |-> IF t = UpdateTask
                           THEN (IF thing = "thermometer" THEN "timer" ELSE "absent")
                           ELSE "listen"]
  /\ NoButton /\ NoLight

NextThermometer ==
  \/ SensorFault
  \/ SensorRecover
  \/ \E v \in Temperatures : TempChange(v)
  \/ ClientConnects
  \/ TimerFired
  \/ WriteTaskSend
  \/ \E t \in Tasks : Lock(t)
  \/ \E t \in Tasks : Read(t)
  \/ \E t \in Tasks : Unlock(t)
  \/ \E t \in WebTasks, p \in {"temperature", "humidity"} : GetProperty(t, p)
  \/ \E t \in WebTasks : PropertyResponse(t)
  \/ \E t \in WebTasks : Responded(t)
  \/ \E t \in WebTasks : thing = "thermometer" /\ GetEvents(t)
  \/ \E t \in WebTasks : Changed(t)
  \/ \E t \in WebTasks : Timeout(t)
  \/ \E t \in WebTasks : WriteOk(t)
  \/ \E t \in WebTasks : WriteErr(t)
  \/ \E t \in WebTasks : SocketClosed(t)

SpecThermometer == InitThermometer /\ [][NextThermometer]_vars

\* light.rs main: Light { on: false, brightness: 100, color: WHITE }, one web task
InitLight ==
  /\ thing = "light"
  /\ boot = Booted(thing)
  /\ InitCommon
  /\ light = [on |-> FALSE, brightness |-> 100, color |-> WHITE]
  /\ led = None /\ led_fault = FALSE
  /\ pc = [t \in Tasks |-> IF t = UpdateTask THEN "absent" ELSE "listen"]
  /\ NoButton /\ NoThermo

NextLight ==
  \/ LedFault
  \/ \E t \in WebTasks, p \in LightProps : GetLight(t, p)
  \/ \E t \in WebTasks, p \in LightProps : \E s \in Bodies(p) : PutLight(t, p, s)
  \/ \E t \in WebTasks : Lock(t)
  \/ \E t \in WebTasks : LightRead(t)
  \/ \E t \in WebTasks : LightWrite(t)
  \/ \E t \in WebTasks : LightUpdate(t)
  \/ \E t \in WebTasks : Unlock(t)
  \/ \E t \in WebTasks : LightResponse(t)
  \/ \E t \in WebTasks : Responded(t)

SpecLight == InitLight /\ [][NextLight]_vars

\* any of the four binaries
InitThings == InitButton \/ InitThermometer \/ InitLight

NextThings ==
  \/ thing = "button" /\ NextButton
  \/ thing \in {"thermometer", "async_main"} /\ NextThermometer
  \/ thing = "light" /\ NextLight

SpecThings == InitThings /\ [][NextThings]_vars

\* main from its first line: nothing is spawned but connection and net_task
InitStartup ==
  /\ thing \in Things
  /\ boot = [main |-> "link_wait", link |-> FALSE, ip |-> FALSE, base_uri |-> None,
             mdns |-> FALSE]
  /\ InitCommon
  /\ pc = [t \in Tasks |-> "unspawned"]
  /\ NoButton
  /\ IF thing \in {"thermometer", "async_main"}
     THEN /\ fault = FALSE /\ temp = 2000 /\ hum \in Humidities /\ pending = FALSE
          /\ cycles = 0 /\ readings = <<>> /\ prev_data = None /\ cycle_sends = 0
     ELSE NoThermo
  /\ IF thing = "light"
     THEN /\ light = [on |-> FALSE, brightness |-> 100, color |-> WHITE]
          /\ led = None /\ led_fault = FALSE
     ELSE NoLight

\* the tasks take steps only once main has spawned them
NextStartup ==
  \/ LinkUp
  \/ LinkDown
  \/ DhcpBound
  \/ MainLinkUp
  \/ MainGotIp
  \/ boot.main = "spawned" /\ NextThings

SpecStartup == InitStartup /\ [][NextStartup]_vars

\* the connection task of any binary, from its spawn by main
NextConnection ==
  \/ ConnTop
  \/ Disconnected
  \/ WaitForEventDone
  \/ DisconnectedDelayDone
  \/ \E ok \in BOOLEAN : IsStartedCheck(ok)
  \/ \E ok \in BOOLEAN : StartAsyncDone(ok)
  \/ ConnectAsync
  \/ \E ok \in BOOLEAN : ConnectAsyncDone(ok)
  \/ FailedDelayDone

SpecConnection == InitStartup /\ [][NextConnection]_vars

\* the routes of each binary that answer a request with one response, without
\* the event streams, the device tasks and the faults of the devices
NextRoutes ==
  \/ \E t \in WebTasks, path \in TdPaths : GetTd(t, path)
  \/ \E t \in WebTasks : Responded(t)
  \/ /\ thing = "button"
     /\ \E t \in WebTasks : GetPropertiesOn(t) \/ PropertiesOnLoad(t)
  \/ /\ thing \in {"thermometer", "async_main"}
     /\ \E t \in WebTasks :
          \/ \E p \in {"temperature", "humidity"} : GetProperty(t, p)
          \/ Lock(t) \/ Read(t) \/ Unlock(t) \/ PropertyResponse(t)
  \/ /\ thing = "light"
     /\ \E t \in WebTasks :
          \/ \E p \in LightProps : GetLight(t, p) \/ \E s \in Bodies(p) : PutLight(t, p, s)
          \/ Lock(t) \/ LightRead(t) \/ LightWrite(t) \/ LightUpdate(t) \/ Unlock(t)
          \/ LightResponse(t)

SpecRoutes == InitThings /\ [][NextRoutes]_vars

-----------------------------------------------------------------------------
\* Properties of the button Thing

\* the event-stream requests the web task pool has admitted
EventHandlers == {t \in WebTasks : pc[t] \in {"changed", "write", "panicked"}}

\* handler t holds a receiver, another handler holds one too, and send number i
\* is the latest send and has not been read by t
C1_Pending(t, i) ==
  /\ Subscribed(t) /\ \E u \in ButtonTasks \ {t} : Subscribed(u)
  /\ sent_since[t] /\ WATCH.current_id = i /\ at_id[t] < i

\* handler t has written the value_changed frame of send i
C1_Wrote(t, i) ==
  /\ pc[t] = "changed" /\ i <= Len(sent)
  /\ frame[t] = EventFrame(BoolToString(sent[i]), i)

\* C1: when two event-stream handlers hold receivers on WATCH and update_task
\* sends v, each of them eventually writes a value_changed frame carrying v,
\* unless a later send happens before it reads or its frame write fails.
C1_BothReceive ==
  \A t \in ButtonTasks : \A i \in 1..MaxPresses :
    C1_Pending(t, i) ~> (C1_Wrote(t, i) \/ WATCH.current_id > i \/ ~Subscribed(t))

\* the same delivery, allowing for the process to have halted meanwhile
DeliveryUnlessHalted ==
  \A t \in ButtonTasks : \A i \in 1..MaxPresses :
    C1_Pending(t, i) ~>
      (C1_Wrote(t, i) \/ WATCH.current_id > i \/ ~Subscribed(t) \/ halted)

\* C2: a handler that has been connected while update_task performed no send
\* has written (or is writing) no value_changed frame, whenever it subscribed.
C2_OnlyKeepalives ==
  \A t \in WebTasks :
    (Subscribed(t) /\ ~sent_since[t]) => frame[t].kind /= "value_changed"

\* C3: for every number k of event-stream requests the web task pool has
\* admitted, each of the k handlers holds a receiver on WATCH.
C3_EveryHandlerSubscribes ==
  \A k \in 1..Cardinality(WebTasks) :
    Cardinality(EventHandlers) = k => WATCH.receiver_count = k

\* C4: while every receiver slot of WATCH is in use, a further GET /events/on
\* does not halt the process.
C4_FullChannelNoHalt == WATCH.receiver_count = WATCH_N => ~halted

\* the value of on after j toggles (AtomicBool::new(false))
OnAfter(j) == j % 2 = 1

\* C5: the response of a GET /properties/on that started after the k-th publish
\* carries the value of on after j toggles, for some j between k and the number
\* of toggles done by the time the response has been written.
C5_ReadLinearizable ==
  \A t \in WebTasks :
    pc[t] = "respond" =>
      /\ resp[t].status = 200
      /\ \E j \in k_start[t]..toggles : resp[t].body = BoolToString(OnAfter(j))

\* a read that started after publish 1 and is answered after publish 2
C5_Witness ==
  \E t \in WebTasks :
    pc[t] = "respond" /\ k_start[t] = 1 /\ resp[t].body = "true" /\ Len(sent) = 2

-----------------------------------------------------------------------------
\* Properties of the light Thing

\* C6: a GET of a writable property, served after a PUT of v to that property
\* was answered 204 and with no later PUT to it, returns v.
C6_WriteRoundTrip ==
  \A t \in WebTasks :
    (pc[t] = "respond" /\ req[t].method = "GET" /\ last_put[req[t].prop] /= None) =>
      /\ resp[t].status = 200
      /\ resp[t].body = ToJson(req[t].prop, last_put[req[t].prop][1])

\* GET /properties/on answers true after PUT true, the light having started off
C6_Witness ==
  \E t \in WebTasks :
    /\ pc[t] = "respond" /\ req[t].method = "GET" /\ req[t].prop = "on"
    /\ last_put["on"] = Some(TRUE) /\ resp[t].body = "true"

-----------------------------------------------------------------------------
\* Properties of the thermometer Thing

\* a value in hundredths, rounded to tenths (half away from zero, as f32::round)
Round10(x) == (x + 5) \div 10
Abs(x) == IF x < 0 THEN -x ELSE x

\* C7: if the pairwise differences of the successful readings round to zero at
\* 0.1 degree resolution, temperature_write_task has sent at most once.
C7_DebounceAtMostOnce ==
  (\A i, j \in DOMAIN readings : Round10(Abs(readings[i] - readings[j])) = 0)
    => Len(sent) <= 1

\* C8: after a poll cycle whose successful reading, rounded to 0.1 degree,
\* differs from the value published last, the cycle has sent exactly once and
\* WATCH holds that reading.
C8_BoundaryPublishesOnce ==
  (/\ pc[UpdateTask] = "timer" /\ cycles > 0
   /\ reading[UpdateTask].tag = "Ok" /\ prev_data /= None
   /\ Round10(reading[UpdateTask].val) /= Round10(prev_data[1]))
    => /\ cycle_sends = 1
       /\ WATCH.data = Some(reading[UpdateTask].val)
       /\ sent[Len(sent)] = reading[UpdateTask].val

\* 20.0 was published, the next cycle read 20.05 and sent it
C8_Witness ==
  /\ pc[UpdateTask] = "timer" /\ prev_data = Some(2000)
  /\ reading[UpdateTask] = Ok(2005) /\ cycle_sends = 1 /\ WATCH.data = Some(2005)

\* C9: a task whose sensor read failed does not keep the Mutex, the Mutex is
\* free whenever a GET asks for it, and a GET /properties/temperature served
\* while the sensor works answers 200 with the reading.
C9_FaultIsolation ==
  /\ [](\A t \in Tasks : (reading[t].tag = "Err" /\ pc[t] /= "unlock") => t \notin mutex)
  /\ [](\A t \in WebTasks : (pc[t] = "lock" /\ running = {t}) => mutex = {})
  /\ [][\A t \in WebTasks :
          (pc[t] = "make_resp" /\ pc'[t] = "respond" /\ req[t].prop = "temperature"
           /\ ~fault)
            => /\ resp'[t].status = 200
               /\ resp'[t].body = F32ToString(temp)]_vars

\* the last poll cycle failed to read the sensor and a later GET is answered 200
C9_Witness ==
  \E t \in WebTasks :
    /\ reading[UpdateTask].tag = "Err" /\ pc[UpdateTask] = "timer"
    /\ pc[t] = "respond" /\ req[t].prop = "temperature" /\ resp[t].status = 200

\* C10: GET /properties/temperature and /humidity answer 200 with the reading
\* exactly when the sensor read succeeded and 500 exactly when it failed; the
\* handler does not hold the Mutex when it produces the response, and the
\* process has not halted.
C10_StatusFollowsRead ==
  \A t \in WebTasks :
    /\ pc[t] \in {"make_resp", "respond"} => t \notin mutex
    /\ (pc[t] = "respond" /\ req[t].method = "GET") =>
         /\ ~halted
         /\ \/ /\ reading[t].tag = "Ok" /\ resp[t].status = 200
               /\ resp[t].body = F32ToString(reading[t].val)
            \/ /\ reading[t].tag = "Err" /\ resp[t].status = 500

\* a failed humidity read answered 500 by async_main, the Mutex free again
C10_Witness ==
  \E t \in WebTasks :
    /\ thing = "async_main" /\ pc[t] = "respond" /\ req[t].prop = "humidity"
    /\ resp[t].status = 500 /\ mutex = {}

-----------------------------------------------------------------------------
\* Error handling of the light Thing

\* C11: a PUT to a property of the light is answered 204 when the LED write
\* succeeds and 500 when it fails, and a failing LED write does not stop the
\* process.
C11_LedFaultAnswered ==
  /\ ~halted
  /\ \A t \in WebTasks :
       (pc[t] = "respond" /\ req[t].method = "PUT" /\ put_arg[t] /= None)
         => resp[t].status \in {204, 500}

\* the explored bodies that are not JSON of the property's type
C12_Malformed(p, s) ==
  \/ p = "on" /\ s \notin {"true", "false"}
  \/ p = "brightness" /\ s \notin {"0", "100", "255"}
  \/ p = "color" /\ s \notin {"{'r':255,'g':0,'b':0}", "{'r':0,'g':0,'b':0}",
                               "{'r':255,'g':255,'b':255}"}

\* C12: a PUT whose body is not JSON of the property's type is answered with a
\* 4xx status without the handler running, and no step taken while that
\* request is served changes the stored on, brightness, color or the LED.
C12_BadBodyRejected ==
  [][\A t \in WebTasks :
       (req'[t].method = "PUT" /\ C12_Malformed(req'[t].prop, req'[t].body))
         => /\ light' = light /\ led' = led
            /\ pc'[t] = "respond"
            /\ resp'[t].status \in 400..499]_vars

\* brightness 255 was written to the LED, then a PUT of 256 is answered 400
\* and the brightness is still 255
C12_Witness ==
  \E t \in WebTasks :
    /\ pc[t] = "respond" /\ req[t].method = "PUT" /\ req[t].body = "256"
    /\ resp[t].status = 400 /\ light.brightness = 255 /\ led /= None

-----------------------------------------------------------------------------
\* Event streams: failure of a frame write

\* C13: the step in which a frame write of handler t fails changes nothing but
\* t: the other handlers' control states, cursors and frames, the value and
\* the id stored in WATCH, the property state and the update task are the
\* same, one receiver fewer is registered and the process runs on; and every
\* publish is ready for every handler that holds a receiver, which can then
\* take it, whatever has happened to the other handlers.
C13_WriteFailureIsolated ==
  /\ [][\A t \in WebTasks :
          (pc[t] = "write" /\ pc'[t] = "closed") =>
            /\ \A u \in WebTasks \ {t} :
                 pc'[u] = pc[u] /\ at_id'[u] = at_id[u] /\ frame'[u] = frame[u]
            /\ WATCH'.data = WATCH.data /\ WATCH'.current_id = WATCH.current_id
            /\ WATCH'.receiver_count = WATCH.receiver_count - 1
            /\ on' = on /\ upd_on' = upd_on /\ reading' = reading /\ mutex' = mutex
            /\ pc'[UpdateTask] = pc[UpdateTask]
            /\ ~halted' /\ running' = {}]_vars
  /\ [][\A u \in WebTasks :
          (Len(sent') = Len(sent) + 1 /\ Subscribed(u)) => ChangedReady(WATCH', at_id'[u])]_vars
  /\ [](\A u \in WebTasks :
          (pc[u] = "changed" /\ ChangedReady(WATCH, at_id[u]) /\ running = {} /\ ~halted)
            => ENABLED Changed(u))

\* handler t's write has failed and handler u is writing the latest publish
C13_Witness ==
  \E t, u \in WebTasks :
    /\ t /= u /\ pc[t] = "closed" /\ pc[u] = "write"
    /\ WATCH.current_id = 2 /\ frame[u] = EventFrame(ValueString(sent[2]), 2)

\* C14: a handler leaves write_events only from a frame write (write_event or
\* write_keepalive returning Err), never from the wait; the receivers
\* registered in WATCH are exactly those of the handlers inside write_events,
\* so the slot of a handler that left is free for the next receiver().
C14_ReturnsOnlyOnWriteFailure ==
  /\ [](WATCH.receiver_count = Cardinality({t \in WebTasks : Subscribed(t)}))
  /\ [][\A t \in WebTasks :
          (Subscribed(t) /\ ~Subscribed(t)') =>
            /\ pc[t] = "write" /\ pc'[t] = "closed"
            /\ ReceiverAvailable(WATCH')]_vars

\* both slots were taken, the write of t failed, and a third handler has been
\* given the slot t held
C14_Witness ==
  \E t, u, v \in WebTasks :
    /\ t /= u /\ t /= v /\ u /= v
    /\ pc[t] = "closed" /\ Subscribed(u) /\ Subscribed(v)
    /\ WATCH.receiver_count = WATCH_N /\ ~halted

-----------------------------------------------------------------------------
\* Event streams: the producer and slow handlers

\* the wait of the update task has completed and its next step is due
C15_ProducerDue ==
  \/ pc[UpdateTask] = "wait_for_low" /\ btn = "low" /\ toggles < MaxPresses
  \/ pc[UpdateTask] = "wait_for_high" /\ btn = "high"
  \/ pc[UpdateTask] = "timer" /\ cycles < MaxCycles

\* C15: whenever update_task or temperature_write_task has reached its send,
\* the send can run, whatever receivers exist and wherever their cursors are;
\* the step that sends ends the segment that began it and touches no handler;
\* and while a handler is suspended in a frame write, the producer's next step
\* and the other handlers' taking of a ready value are enabled.
C15_SendNeverSuspends ==
  /\ []((pc[UpdateTask] = "send" /\ running = {UpdateTask} /\ ~halted) =>
          IF thing = "button" THEN ENABLED Send ELSE ENABLED WriteTaskSend)
  /\ [][Len(sent') = Len(sent) + 1 =>
          /\ running = {UpdateTask} /\ running' = {}
          /\ at_id' = at_id /\ frame' = frame
          /\ \A t \in WebTasks : pc'[t] = pc[t]]_vars
  /\ []((running = {} /\ ~halted /\ \E t \in WebTasks : pc[t] = "write") =>
          /\ C15_ProducerDue =>
                ENABLED (WaitForLow \/ WaitForHigh \/ TimerFired)
          /\ \A u \in WebTasks :
               (pc[u] = "changed" /\ ChangedReady(WATCH, at_id[u])) => ENABLED Changed(u))

\* handler t is still writing the frame of the first send while the second
\* send has been made and handler u is already writing its frame
C15_Witness ==
  \E t, u \in WebTasks :
    /\ t /= u /\ pc[t] = "write" /\ frame[t].id = 1 /\ at_id[t] = 1
    /\ WATCH.current_id = 2 /\ pc[u] = "write" /\ frame[u].id = 2

\* C16: WATCH retains the two most recent publishes: a handler that took a
\* publish and then did not wait while exactly two more, v1 and a different
\* v2, were made takes v1 at its next wait.
C16_RetainsTwoPublishes ==
  [][\A t \in WebTasks :
       (/\ pc[t] = "changed" /\ pc'[t] = "write" /\ frame'[t].kind = "value_changed"
        /\ at_id[t] >= 1 /\ WATCH.current_id = at_id[t] + 2
        /\ sent[at_id[t] + 1] /= sent[at_id[t] + 2])
         => frame'[t] = EventFrame(ValueString(sent[at_id[t] + 1]), at_id[t] + 1)]_vars

\* C17: the cursor of a handler moves only in the step that takes the latest
\* publish into a value_changed frame (so neither the timeout path nor a frame
\* write moves it); a handler that ends its wait with exactly one publish
\* unread writes the value_changed frame of that publish; and such a handler
\* can always end its wait.
C17_SinglePublishDelivered ==
  /\ [][\A t \in WebTasks :
          (Subscribed(t) /\ Subscribed(t)' /\ at_id'[t] /= at_id[t]) =>
            /\ pc[t] = "changed" /\ pc'[t] = "write"
            /\ at_id'[t] = WATCH.current_id
            /\ frame'[t] = EventFrame(ValueString(sent[WATCH.current_id]),
                                      WATCH.current_id)]_vars
  /\ [][\A t \in WebTasks :
          (pc[t] = "changed" /\ pc'[t] = "write" /\ WATCH.current_id = at_id[t] + 1) =>
            /\ frame'[t] = EventFrame(ValueString(sent[at_id[t] + 1]), at_id[t] + 1)
            /\ at_id'[t] = at_id[t] + 1]_vars
  /\ [](\A t \in WebTasks :
          (pc[t] = "changed" /\ WATCH.current_id > at_id[t] /\ running = {} /\ ~halted)
            => ENABLED Changed(t))

\* the second publish was made while handler u was writing a keepalive (its
\* timeout had expired); handler t has taken that publish
C17_Witness ==
  \E t, u \in WebTasks :
    /\ pc[u] = "write" /\ frame[u] = KeepaliveFrame /\ at_id[u] = 1
    /\ WATCH.current_id = 2
    /\ pc[t] = "write" /\ frame[t] = EventFrame(ValueString(sent[2]), 2)

-----------------------------------------------------------------------------
\* The shared Mutex of the light and of the thermometer

\* C18: the Mutex is held only by the task that is running its segment, so it
\* is free at every scheduling point; at most one task holds it; and a task
\* that has reached lock().await is still running and finds the Mutex free,
\* so no task ever waits for it.
C18_NoAwaitUnderLock ==
  /\ mutex \subseteq running
  /\ Cardinality(mutex) <= 1
  /\ \A t \in Tasks : pc[t] = "lock" => (running = {t} /\ mutex = {})

\* temperature_write_task reads the sensor under the lock while the web task
\* is suspended writing the response of a GET that read the sensor too
C18_Witness ==
  /\ thing = "thermometer" /\ mutex = {UpdateTask} /\ pc[UpdateTask] = "read"
  /\ \E t \in WebTasks : pc[t] = "respond" /\ reading[t].tag = "Ok"

-----------------------------------------------------------------------------
\* Property reads beside open event streams

\* the event streams that are open
OpenStreams == {t \in WebTasks : Subscribed(t)}

\* C19: while at least one event stream is open and WATCH still has a receiver
\* to give, a GET of a property that a client has sent finds a web task that
\* is not inside an event stream and can accept it.
C19_GetServedBesideStreams ==
  (/\ pending /\ ~halted
   /\ Cardinality(OpenStreams) >= 1 /\ Cardinality(OpenStreams) < WATCH_N)
    => \E t \in WebTasks : ~Subscribed(t)

-----------------------------------------------------------------------------
\* Discovery

\* C20: in every binary, GET / and GET /.well-known/wot are both answered 200
\* with the Thing Description as the body and content type application/td+json.
C20_TdOnBothPaths ==
  \A t \in WebTasks :
    (pc[t] = "respond" /\ req[t].prop \in TdPaths) =>
      resp[t] = [status |-> 200, body |-> TD, ctype |-> "application/td+json"]

-----------------------------------------------------------------------------
\* The update task of the button

\* C21: update_task publishes after every edge it observes: the step in which
\* wait_for_low or wait_for_high completes and the task goes on to wait for
\* the next edge comes with a send, or a send separates the two waits.
C21_EveryEdgePublished ==
  [][(/\ pc[UpdateTask] \in {"wait_for_low", "wait_for_high"}
      /\ pc'[UpdateTask] \in {"wait_for_low", "wait_for_high"}
      /\ pc'[UpdateTask] /= pc[UpdateTask])
       => WATCH'.current_id = WATCH.current_id + 1]_vars

\* C24: state.on is true exactly after an odd number of toggles; the i-th send
\* carries the state after i toggles; whenever update_task waits for an edge
\* it has sent once per toggle, and between a toggle and its send it has
\* toggled once more than it has sent; while it waits for the button to go
\* high and the button is held low, none of its steps can be taken.
C24_OneToggleOneSend ==
  /\ on = OnAfter(toggles)
  /\ \A i \in 1..Len(sent) : sent[i] = OnAfter(i)
  /\ pc[UpdateTask] \in {"wait_for_low", "wait_for_high", "fetch_not"}
       => Len(sent) = toggles
  /\ pc[UpdateTask] = "send" => (Len(sent) = toggles - 1 /\ upd_on = on)
  /\ (pc[UpdateTask] = "wait_for_high" /\ btn = "low")
       => ~ENABLED (WaitForLow \/ FetchNot \/ Send \/ WaitForHigh)

\* after the second press, the button still held low: two toggles, two sends
\* (true, false), state.on false
C24_Witness ==
  /\ pc[UpdateTask] = "wait_for_high" /\ btn = "low"
  /\ toggles = 2 /\ sent = <<TRUE, FALSE>> /\ on = FALSE

\* C25: at every scheduling point the number of publishes equals the number
\* of toggles and, once something was published, the latest value of WATCH is
\* state.on; so a change frame of publish k is written only after k toggles,
\* and a GET /properties/on that started when a subscriber already held the
\* frame of publish k answers the state after j toggles for some j >= k.
C25_StateBeforeSend ==
  /\ running = {} =>
       /\ WATCH.current_id = toggles
       /\ WATCH.data /= None => WATCH.data = Some(on)
  /\ \A u \in WebTasks :
       frame[u].kind = "value_changed" =>
         /\ frame[u].id <= toggles
         /\ \A t \in WebTasks :
              (pc[t] = "respond" /\ frame[u].id <= k_start[t]) =>
                \E j \in frame[u].id..toggles :
                  resp[t].body = BoolToString(OnAfter(j))

\* a subscriber holds the frame of publish 2 and a GET that started after it
\* is answered false
C25_Witness ==
  \E t, u \in WebTasks :
    /\ frame[u].kind = "value_changed" /\ frame[u].id = 2
    /\ pc[t] = "respond" /\ k_start[t] = 2 /\ resp[t].body = "false"

-----------------------------------------------------------------------------
\* The loop of Events::write_events

\* C22: a handler leaves its wait only into one frame write: of a frame named
\* value_changed carrying the string of the latest value sent when a publish
\* newer than its cursor exists, of a keepalive otherwise; the write of that
\* frame ends in the next wait or in the end of the handler, with no other
\* frame started in between.
C22_OneFramePerIteration ==
  [][\A t \in WebTasks :
       /\ (pc[t] = "changed" /\ pc'[t] /= "changed") =>
            /\ pc'[t] = "write"
            /\ frame'[t] =
                 IF WATCH.data /= None /\ WATCH.current_id > at_id[t]
                 THEN [kind |-> "value_changed",
                       data |-> ValueString(sent[Len(sent)]),
                       id |-> Len(sent)]
                 ELSE [kind |-> "keepalive", data |-> "", id |-> 0]
       /\ (pc[t] = "write" /\ pc'[t] /= "write") =>
            /\ pc'[t] \in {"changed", "closed"}
            /\ pc'[t] = "changed" => frame'[t] = frame[t]
       /\ (pc[t] = "write" /\ pc'[t] = "write") => frame'[t] = frame[t]]_vars

\* handler u took the first publish and is now writing the keepalive of a wait
\* that expired; handler t is writing the value_changed frame of that publish
C22_Witness ==
  \E t, u \in WebTasks :
    /\ pc[u] = "write" /\ frame[u].kind = "keepalive" /\ at_id[u] = 1
    /\ WATCH.current_id = 1
    /\ pc[t] = "write" /\ frame[t].kind = "value_changed" /\ frame[t].data = "true"

-----------------------------------------------------------------------------
\* temperature_write_task and failing reads

\* C23: the step that ends a poll cycle whose read failed sends nothing and
\* leaves WATCH and every cursor as they were; temperature_write_task is
\* always at one of the points of its loop, the process has not halted, and
\* at its timer the next cycle can start.
C23_FailedReadSkipsSend ==
  /\ [][(/\ pc[UpdateTask] = "send" /\ pc'[UpdateTask] /= "send"
          /\ reading[UpdateTask].tag = "Err")
           => /\ WATCH' = WATCH /\ at_id' = at_id /\ sent' = sent
              /\ pc'[UpdateTask] = "timer"]_vars
  /\ [](thing = "thermometer" =>
          /\ ~halted
          /\ pc[UpdateTask] \in {"timer", "lock", "read", "unlock", "send"}
          /\ (pc[UpdateTask] = "timer" /\ cycles < MaxCycles /\ running = {})
               => ENABLED TimerFired)

\* the first cycle published 20.0 and a handler took it; the second cycle's
\* read failed and the task is back at its timer, nothing sent
C23_Witness ==
  /\ pc[UpdateTask] = "timer" /\ cycles = 2 /\ reading[UpdateTask].tag = "Err"
  /\ cycle_sends = 0 /\ WATCH.data = Some(2000) /\ WATCH.current_id = 1
  /\ \E t \in WebTasks : Subscribed(t) /\ at_id[t] = 1

-----------------------------------------------------------------------------
\* Order of the frames of one stream

\* C26: while a handler streams its cursor never moves back; every
\* value_changed frame it starts to write is the frame of a publish beyond its
\* cursor, carries the value of that publish, and moves the cursor onto it; so
\* the publishes it writes have strictly increasing numbers: a subsequence of
\* the sends in publish order, none written twice.
C26_FramesInPublishOrder ==
  /\ [][\A t \in WebTasks :
         /\ (Subscribed(t) /\ Subscribed(t)') => at_id'[t] >= at_id[t]
         /\ (pc[t] = "changed" /\ pc'[t] = "write" /\ frame'[t].kind = "value_changed") =>
              /\ frame'[t].id > at_id[t]
              /\ frame'[t].id \in 1..Len(sent')
              /\ frame'[t].data = ValueString(sent'[frame'[t].id])
              /\ at_id'[t] = frame'[t].id]_vars
  /\ [](\A t \in WebTasks :
         (Subscribed(t) /\ frame[t].kind = "value_changed") => frame[t].id <= at_id[t])

\* a handler subscribed before the third publish starts to write its frame
C26_Witness ==
  \E t \in WebTasks :
    /\ pc[t] = "write" /\ frame[t].kind = "value_changed" /\ frame[t].id = 3
    /\ sent_since[t] /\ Len(sent) = 3

-----------------------------------------------------------------------------
\* Receivers of WATCH

\* C27: in every reachable state WATCH counts one receiver per handler inside
\* write_events and no more than its capacity of 2; a handler that is not
\* streaming (listening, serving a property, closed, or panicked in unwrap)
\* holds none.
C27_ReceiversMatchStreams ==
  /\ WATCH.receiver_count = Cardinality(OpenStreams)
  /\ WATCH.receiver_count \in 0..WATCH_N

\* two handlers stream and hold the two receivers; a third one asked for a
\* receiver and got none
C27_Witness ==
  \E t, u \in WebTasks :
    /\ t /= u /\ Subscribed(t) /\ Subscribed(u)
    /\ WATCH.receiver_count = WATCH_N
    /\ \E v \in WebTasks \ {t, u} : pc[v] = "panicked"

-----------------------------------------------------------------------------
\* The LED of the light Thing

\* one channel of the LED as the stored fields say it should be lit
C28_Channel(c) ==
  IF light.on THEN (Gamma8(c) * (light.brightness + 1)) \div 256 ELSE 0

\* C28: once a power, brightness or rgb call has completed, and while no call
\* is between its assignment and its LED write, the frame last written to the
\* LED is the gamma-corrected stored color scaled by the stored brightness
\* when on is true and all zero when on is false; the brightness and the color
\* last set by an answered PUT are the stored ones whatever on is.
C28_LedShowsStoredState ==
  (~halted /\ led /= None /\ \A t \in WebTasks : pc[t] /= "update") =>
     /\ led = Some([r |-> C28_Channel(light.color.r),
                    g |-> C28_Channel(light.color.g),
                    b |-> C28_Channel(light.color.b)])
     /\ running = {} =>
          \A p \in {"brightness", "color"} :
            last_put[p] /= None => light[p] = last_put[p][1]

\* answered PUTs have set brightness 255, red and on: the LED shows full red
C28_Witness ==
  /\ running = {} /\ light = [on |-> TRUE, brightness |-> 255, color |-> RED]
  /\ last_put = [on |-> Some(TRUE), brightness |-> Some(255), color |-> Some(RED)]
  /\ led = Some([r |-> 255, g |-> 0, b |-> 0])

\* C29: a step that changes a stored field of the light is the assignment of
\* the PUT handler of that very field, stores the value the PUT carried and
\* leaves the two other fields as they were; no step of a GET handler, from
\* its start to its response, changes a field or the LED output.
C29_WritesOwnFieldOnly ==
  [][/\ \A p \in LightProps :
          light'[p] /= light[p] =>
            \E t \in WebTasks :
              /\ running = {t} /\ pc[t] = "locked"
              /\ req[t].method = "PUT" /\ req[t].prop = p
              /\ light'[p] = put_arg[t][1]
              /\ \A q \in LightProps \ {p} : light'[q] = light[q]
     /\ \A t \in WebTasks :
          (running' = {t} /\ req'[t].method = "GET") \/ (running = {t} /\ req[t].method = "GET")
            => (light' = light /\ led' = led)]_vars

\* a PUT of brightness 0 was answered with the light on and red: on and color
\* are as before
C29_Witness ==
  \E t \in WebTasks :
    /\ pc[t] = "respond" /\ req[t].method = "PUT" /\ req[t].prop = "brightness"
    /\ resp[t].status = 204
    /\ light = [on |-> TRUE, brightness |-> 0, color |-> RED]
    /\ led = Some([r |-> 0, g |-> 0, b |-> 0])

-----------------------------------------------------------------------------
\* Start of the tasks

\* C30: the update task, mdns_task and the web tasks exist only once main has
\* seen the link up and an IPv4 address assigned and has made the base URI
\* from it; as long as there is no base URI no request has been accepted or
\* answered, no frame written and nothing published on WATCH.
C30_StartedAfterAddress ==
  /\ ((\E t \in Tasks : pc[t] /= "unspawned") \/ boot.mdns) =>
       /\ boot.main = "spawned" /\ boot.link /\ boot.ip
       /\ boot.base_uri = Some(BaseUri)
  /\ boot.base_uri = None =>
       /\ \A t \in WebTasks : req[t] = NoReq /\ resp[t] = NoResp /\ frame[t] = NoFrame
       /\ sent = <<>> /\ WATCH = WatchNew /\ running = {}

\* the button Thing has started its tasks, published once and answered a GET
C30_Witness ==
  /\ thing = "button" /\ boot.mdns /\ boot.base_uri = Some(BaseUri)
  /\ Len(sent) = 1
  /\ \E t \in WebTasks : pc[t] = "respond" /\ resp[t].status = 200

-----------------------------------------------------------------------------
\* The connection task

\* the order of the steps of the loop: connect_async is called only while the
\* station is not connected; an iteration that finds StaConnected waits for
\* the StaDisconnected event and then 5 s; start_async is entered only when
\* is_started() is not Ok(true); a failed connect_async is followed by the 5 s
\* wait, which always ends, and then by the next attempt, however many
\* attempts have failed in a row
C31_LoopOrder ==
  /\ [][/\ wifi'.attempts /= wifi.attempts => ~IsConnected(wifi)
        /\ (wifi.pc = "top" /\ wifi'.pc /= "top" /\ IsConnected(wifi))
             => wifi'.pc = "wait_for_event"
        /\ (wifi.pc = "wait_for_event" /\ wifi'.pc /= "wait_for_event")
             => (wifi.event /\ ~IsConnected(wifi) /\ wifi'.pc = "delay_disconnected")
        /\ (wifi.pc = "delay_disconnected" /\ wifi'.pc /= "delay_disconnected")
             => wifi'.pc = "is_started"
        /\ (wifi.pc /= "start_async" /\ wifi'.pc = "start_async") => ~IsStarted(wifi)
        /\ (wifi.pc = "connect_async" /\ wifi'.pc /= "connect_async" /\ ~IsConnected(wifi'))
             => (wifi'.pc = "delay_failed" /\ wifi'.fails = wifi.fails + 1)
        /\ (wifi.pc = "delay_failed" /\ wifi'.pc /= "delay_failed") => wifi'.pc = "top"
       ]_vars
  /\ [](/\ wifi.pc \in {"is_started", "start_async", "connect", "connect_async"}
             => ~IsConnected(wifi)
        /\ wifi.pc = "delay_failed" => ENABLED FailedDelayDone
        /\ (wifi.pc = "top" /\ ~IsConnected(wifi)) => ENABLED ConnTop
        /\ (wifi.pc = "is_started" /\ IsStarted(wifi)) =>
             ENABLED (\E ok \in BOOLEAN : IsStartedCheck(ok))
        /\ (wifi.pc = "connect" /\ wifi.attempts < MaxAttempts) => ENABLED ConnectAsync)

\* C31: the connection task never terminates, and its loop keeps the order of
\* C31_LoopOrder.
C31_ConnectionNeverStops ==
  /\ [](wifi.pc /= "panicked")
  /\ C31_LoopOrder

\* two connect_async in a row have failed and the task attempts a third time
C31_RetriesAfterFailures ==
  wifi.pc = "connect_async" /\ wifi.fails = 2 /\ wifi.attempts = 3

====
